---- MODULE Spec2Model ----
(***************************************************************************)
(* caching::lru_cache<TKey, TValue, AllocBlockSize> together with the      *)
(* caching::pool_allocator<T, false, AllocBlockSize> instances that back   *)
(* the nodes of its std::list (cache) and of its std::unordered_map (dict).*)
(*                                                                         *)
(* A list node and an index record are both identified by the slot the     *)
(* allocator handed out for them, <<block number, index in block>>.  The   *)
(* list node stores a pointer to the key of its index record (first) and   *)
(* the value (second); the index record stores the key (first) and the     *)
(* list iterator (second).                                                 *)
(***************************************************************************)
EXTENDS Integers, Sequences, FiniteSets, TLC

\* ------------------------------------------------------------------ bounds
MaxLimit == 2
NumKeys == 3
MaxInitCap == 2
\* the template argument AllocBlockSize the cache is instantiated with
AllocBlockSize == 2

Keys == 1 .. NumKeys
\* the cache never inspects a value, it only copies it: two values tell a
\* kept value from an overwritten one
Values == {1, 2}
Limits == 1 .. MaxLimit
\* initial capacities for which the first block has at least one slot
InitCaps == 1 .. MaxInitCap

\* nullptr, and dict.end()
NULL == <<0, 0>>
\* std::nullopt: no value
NoVal == CHOOSE v \in 0 .. Cardinality(Values) : v \notin Values
\* no key (in the history only)
NoKey == CHOOSE k \in 0 .. NumKeys : k \notin Keys

Min(a, b) == IF a < b THEN a ELSE b
Back(seq) == seq[Len(seq)]

\* ------------------------------------------------------- pool_allocator
\* pool: the sizes of the linked blocks, newest first (mpool.pool is the head)
pool_allocator(reserved) ==
  [pool |-> <<>>, index |-> reserved, currBlockSize |-> reserved]

\* the allocator after allocate(1)   (UseFreeList = false)
AllocateNext(a) ==
  IF a.index = a.currBlockSize
    THEN IF a.pool # <<>>
           THEN [pool |-> <<AllocBlockSize>> \o a.pool, index |-> 1,
                 currBlockSize |-> AllocBlockSize]
           ELSE [pool |-> <<a.currBlockSize>> \o a.pool, index |-> 1,
                 currBlockSize |-> a.currBlockSize]
    ELSE [a EXCEPT !.index = a.index + 1]

\* the slot allocate(1) returns
AllocateSlot(a) ==
  IF a.index = a.currBlockSize
    THEN <<Len(a.pool) + 1, 0>>
    ELSE <<Len(a.pool), a.index>>

\* ------------------------------------------------------------------ state
VARIABLES
  limit,       \* lru_cache::limit
  cache,       \* the std::list: its nodes (slots) from front to back
  listMem,     \* list node slot -> [first: slot of the index record, second: value]
  dict,        \* the std::unordered_map: the set of its records (slots)
  mapMem,      \* index record slot -> [first: key, second: list node slot]
  listAlloc,   \* node allocator of cache
  mapAlloc,    \* node allocator of dict
  bucketCount, \* dict.bucket_count(): the length of the bucket array of dict
  last,        \* the last call: its arguments and what it returned
  accessOrder, \* history: every key ever looked up with a hit or inserted,
               \* in the order of its latest such call
  run,         \* history: the keys inserted so far while every call since
               \* construction was an insert of a new key; <<NoKey>> afterwards
  ref,         \* the reference cache: <<key, value>> pairs, least recently
               \* used first
  aux          \* the caller of the cache: the program around it

vars == <<limit, cache, listMem, dict, mapMem, listAlloc, mapAlloc,
          bucketCount, last, accessOrder, run, ref, aux>>

cacheVars == <<limit, cache, listMem, dict, mapMem, listAlloc, mapAlloc,
               bucketCount>>

\* ------------------------------------------------- std::list / unordered_map
\* cache.splice(cache.end(), cache, it)
SpliceMutFront(lst, it) == <<it>> \o SelectSeq(lst, LAMBDA x : x # it)
SpliceToEnd(lst, it) == SelectSeq(lst, LAMBDA x : x # it) \o <<it>>

\* dict.find(key): the record holding key, or NULL for dict.end()
DictFind(d, mem, key) ==
  IF \E s \in d : mem[s].first = key
    THEN CHOOSE s \in d : mem[s].first = key
    ELSE NULL

\* dict.size()
DictSize(d) == Cardinality(d)

\* dict.insert(node_type&&): the record is linked unless its key is there
DictInsertNodeMut(d, mem, n) == d
DictInsertNode(d, mem, n) ==
  IF DictFind(d, mem, mem[n].first) = NULL THEN d \cup {n} ELSE d

\* an insertion into dict takes a new bucket array, from allocate(n) with
\* n # 1, when the records would outnumber the buckets (max_load_factor 1)
NeedRehashMut(size, buckets) == TRUE
NeedRehash(size, buckets) == size + 1 > buckets
GrowBuckets(buckets) == 2 * buckets + 1

\* dict.reserve(n)
ReserveBuckets(n) == IF n > 1 THEN n ELSE 1

\* the key a list node refers to: *node.first
KeyOf(lm, mm, node) == mm[lm[node].first].first

\* ------------------------------------------------------------ what is stored
KeysOf(d, mem) == {mem[s].first : s \in d}
PresentKeys == KeysOf(dict, mapMem)
ValueOf(key) == listMem[mapMem[DictFind(dict, mapMem, key)].second].second
Order == [i \in 1 .. Len(cache) |-> KeyOf(listMem, mapMem, cache[i])]
Entries == [i \in 1 .. Len(cache) |->
              <<KeyOf(listMem, mapMem, cache[i]), listMem[cache[i]].second>>]

\* ---------------------------------------------------------------- history
Touch(seq, key) == SelectSeq(seq, LAMBDA x : x # key) \o <<key>>

RunNext(key, fresh) ==
  IF fresh /\ run # <<NoKey>> /\ Len(run) <= limit
    THEN Append(run, key)
    ELSE <<NoKey>>

NoCall ==
  [op |-> "ctor", key |-> NoKey, value |-> NoVal, update |-> FALSE,
   found |-> FALSE, ret |-> NoVal, retptr |-> NULL, inserted |-> FALSE,
   calls |-> <<>>, removed |-> {}, bulk |-> 0]

\* ------------------------------------------------------------ construction
Construct(lim, reserved, buckets) ==
  /\ limit = lim
  /\ cache = <<>>
  /\ listMem = <<>>
  /\ dict = {}
  /\ mapMem = <<>>
  /\ listAlloc = pool_allocator(reserved)
  /\ mapAlloc = pool_allocator(reserved)
  /\ bucketCount = buckets
  /\ last = [NoCall EXCEPT !.bulk = IF buckets > 1 THEN 1 ELSE 0]
  /\ accessOrder = <<>>
  /\ run = <<>>
  /\ ref = <<>>

\* lru_cache(size_t limit)
Ctor1 == \E lim \in Limits : Construct(lim, Min(lim, AllocBlockSize), 1)

\* lru_cache(size_t limit, unsigned initCap)
Ctor2 == \E lim \in Limits, initCap \in InitCaps :
           Construct(lim, initCap, ReserveBuckets(initCap))

\* the cache is used on its own
NoCaller == [kind |-> "none"]

Init == (Ctor1 \/ Ctor2) /\ aux = NoCaller

\* ------------------------------------------------------------------ insert
\* insert, lines 81-92: the key is contained
InsertPresentMut(it, value, update) ==
  LET lstIt == mapMem[it].second
  IN [cache |-> SpliceToEnd(cache, lstIt),
      listMem |-> [listMem EXCEPT ![lstIt].second = value],
      dict |-> dict, mapMem |-> mapMem,
      listAlloc |-> listAlloc, mapAlloc |-> mapAlloc,
      bucketCount |-> bucketCount, bulk |-> 0,
      retptr |-> lstIt, inserted |-> FALSE]
InsertPresent(it, value, update) ==
  LET lstIt == mapMem[it].second
  IN [cache |-> SpliceToEnd(cache, lstIt),
      listMem |-> IF update
                    THEN [listMem EXCEPT ![lstIt].second = value]
                    ELSE listMem,
      dict |-> dict, mapMem |-> mapMem,
      listAlloc |-> listAlloc, mapAlloc |-> mapAlloc,
      bucketCount |-> bucketCount, bulk |-> 0,
      retptr |-> lstIt, inserted |-> FALSE]

\* insert, lines 97-104: the key is not contained and there is room
InsertAppendMut(key, value) ==
  LET pos == AllocateSlot(listAlloc)
      mapIt == AllocateSlot(mapAlloc)
  IN [cache |-> <<pos>> \o cache,
      listMem |-> (pos :> [first |-> mapIt, second |-> value]) @@ listMem,
      dict |-> dict \cup {mapIt},
      mapMem |-> (mapIt :> [first |-> key, second |-> pos]) @@ mapMem,
      listAlloc |-> AllocateNext(listAlloc),
      mapAlloc |-> AllocateNext(mapAlloc),
      bucketCount |-> bucketCount, bulk |-> 0,
      retptr |-> pos, inserted |-> TRUE]
InsertAppend(key, value) ==
  LET pos == AllocateSlot(listAlloc)
      mapIt == AllocateSlot(mapAlloc)
  IN [cache |-> Append(cache, pos),
      listMem |-> (pos :> [first |-> mapIt, second |-> value]) @@ listMem,
      dict |-> dict \cup {mapIt},
      mapMem |-> (mapIt :> [first |-> key, second |-> pos]) @@ mapMem,
      listAlloc |-> AllocateNext(listAlloc),
      mapAlloc |-> AllocateNext(mapAlloc),
      bucketCount |-> IF NeedRehash(DictSize(dict), bucketCount)
                        THEN GrowBuckets(bucketCount) ELSE bucketCount,
      bulk |-> IF NeedRehash(DictSize(dict), bucketCount) THEN 1 ELSE 0,
      retptr |-> pos, inserted |-> TRUE]

\* cache.front(), cache.begin()
CacheFrontMut(lst) == lst[Len(lst)]
CacheFront(lst) == Head(lst)

\* insert, lines 109-128: the limit is reached, the nodes of cache.front()
\* are reused
InsertEvictMut(key, value) ==
  LET front == CacheFront(cache)
      nod == DictFind(dict, mapMem, KeyOf(listMem, mapMem, front))
      mapMem1 == [mapMem EXCEPT ![nod] = [first |-> key, second |-> front]]
  IN [cache |-> SpliceToEnd(cache, front),
      listMem |-> listMem,
      dict |-> dict,
      mapMem |-> mapMem1,
      listAlloc |-> listAlloc, mapAlloc |-> mapAlloc,
      bucketCount |-> bucketCount, bulk |-> 0,
      retptr |-> front, inserted |-> TRUE]
InsertEvictKeyMut(key, value) ==
  LET front == CacheFront(cache)
  IN [cache |-> SpliceToEnd(cache, front),
      listMem |-> [listMem EXCEPT ![front].second = value],
      dict |-> dict,
      mapMem |-> mapMem,
      listAlloc |-> listAlloc, mapAlloc |-> mapAlloc,
      bucketCount |-> bucketCount, bulk |-> 0,
      retptr |-> front, inserted |-> TRUE]
InsertEvict(key, value) ==
  LET front == CacheFront(cache)
      nod == DictFind(dict, mapMem, KeyOf(listMem, mapMem, front))
      extracted == dict \ {nod}
      mapMem1 == [mapMem EXCEPT ![nod] = [first |-> key, second |-> CacheFront(cache)]]
      listMem1 == [listMem EXCEPT ![front] = [first |-> nod, second |-> value]]
  IN [cache |-> SpliceToEnd(cache, CacheFront(cache)),
      listMem |-> listMem1,
      dict |-> DictInsertNode(extracted, mapMem1, nod),
      mapMem |-> mapMem1,
      listAlloc |-> listAlloc, mapAlloc |-> mapAlloc,
      bucketCount |-> IF NeedRehash(DictSize(extracted), bucketCount)
                        THEN GrowBuckets(bucketCount) ELSE bucketCount,
      bulk |-> IF NeedRehash(DictSize(extracted), bucketCount) THEN 1 ELSE 0,
      retptr |-> front, inserted |-> TRUE]

\* insert, line 97: can we just append?
CanAppendMut == TRUE
CanAppend == DictSize(dict) # limit

\* the cache after insert(key, value, update), and what insert returns
InsertResultMut(key, value, update) ==
  LET it == DictFind(dict, mapMem, key)
  IN IF ~CanAppend THEN InsertEvict(key, value)
     ELSE IF it # NULL THEN InsertPresent(it, value, update)
     ELSE InsertAppend(key, value)
InsertResult(key, value, update) ==
  LET it == DictFind(dict, mapMem, key)
  IN IF it # NULL THEN InsertPresent(it, value, update)
     ELSE IF CanAppend THEN InsertAppend(key, value)
     ELSE InsertEvict(key, value)

\* the reference cache: a sequence of <<key, value>> pairs without
\* duplicate keys, least recently used first, of length at most lim
RefIndex(r, key) ==
  IF \E i \in 1 .. Len(r) : r[i][1] = key
    THEN CHOOSE i \in 1 .. Len(r) : r[i][1] = key
    ELSE 0
RefRemove(r, i) == [j \in 1 .. Len(r) - 1 |-> IF j < i THEN r[j] ELSE r[j + 1]]
RefInsert(r, lim, key, value, update) ==
  LET i == RefIndex(r, key)
  IN IF i # 0
       THEN Append(RefRemove(r, i), <<key, IF update THEN value ELSE r[i][2]>>)
       ELSE IF Len(r) < lim THEN Append(r, <<key, value>>)
       ELSE Append(Tail(r), <<key, value>>)
RefGet(r, key) ==
  LET i == RefIndex(r, key)
  IN IF i # 0 THEN Append(RefRemove(r, i), r[i]) ELSE r
RefLookup(r, key) ==
  LET i == RefIndex(r, key)
  IN IF i # 0 THEN [found |-> TRUE, ret |-> r[i][2]]
     ELSE [found |-> FALSE, ret |-> NoVal]

Apply(r) ==
  /\ cache' = r.cache
  /\ listMem' = r.listMem
  /\ dict' = r.dict
  /\ mapMem' = r.mapMem
  /\ listAlloc' = r.listAlloc
  /\ mapAlloc' = r.mapAlloc
  /\ bucketCount' = r.bucketCount
  /\ UNCHANGED limit

Insert(key, value, update) ==
  LET r == InsertResult(key, value, update)
  IN /\ Apply(r)
     /\ last' = [op |-> "insert", key |-> key, value |-> value,
                 update |-> update, found |-> TRUE,
                 ret |-> r.listMem[r.retptr].second, retptr |-> r.retptr,
                 inserted |-> r.inserted, calls |-> <<>>,
                 removed |-> PresentKeys \ KeysOf(r.dict, r.mapMem),
                 bulk |-> r.bulk]
     /\ accessOrder' = Touch(accessOrder, key)
     /\ run' = RunNext(key, key \notin PresentKeys)
     /\ ref' = RefInsert(ref, limit, key, value, update)

\* getOrInsert, lines 136-140
GetOrInsertUpdateMut == TRUE
GetOrInsertUpdate == FALSE

GetOrInsert(key, value) ==
  LET r == InsertResult(key, value, GetOrInsertUpdate)
  IN /\ Apply(r)
     /\ last' = [op |-> "getOrInsert", key |-> key, value |-> value,
                 update |-> FALSE, found |-> TRUE,
                 ret |-> r.listMem[r.retptr].second, retptr |-> r.retptr,
                 inserted |-> r.inserted, calls |-> <<>>,
                 removed |-> PresentKeys \ KeysOf(r.dict, r.mapMem),
                 bulk |-> r.bulk]
     /\ accessOrder' = Touch(accessOrder, key)
     /\ run' = RunNext(key, key \notin PresentKeys)
     /\ ref' = RefInsert(ref, limit, key, value, FALSE)

\* --------------------------------------------------------------- get, peek
\* get, lines 149-157 and 165-173: the list after the call
GetCacheMut(key) == cache
GetCache(key) ==
  LET it == DictFind(dict, mapMem, key)
  IN IF it # NULL THEN SpliceToEnd(cache, mapMem[it].second) ELSE cache

\* get: the optional it returns, [found, ret]
GetReturnMut(key) ==
  LET it == DictFind(dict, mapMem, key)
  IN IF it # NULL
       THEN [found |-> TRUE, ret |-> listMem[Back(cache)].second]
       ELSE [found |-> FALSE, ret |-> NoVal]
GetReturn(key) ==
  LET it == DictFind(dict, mapMem, key)
  IN IF it # NULL
       THEN [found |-> TRUE, ret |-> listMem[mapMem[it].second].second]
       ELSE [found |-> FALSE, ret |-> NoVal]

Get(key) ==
  /\ cache' = GetCache(key)
  /\ UNCHANGED <<limit, listMem, dict, mapMem, listAlloc, mapAlloc,
                 bucketCount>>
  /\ last' = [NoCall EXCEPT !.op = "get", !.key = key,
                            !.found = GetReturn(key).found,
                            !.ret = GetReturn(key).ret]
  /\ accessOrder' = IF GetReturn(key).found THEN Touch(accessOrder, key)
                    ELSE accessOrder
  /\ run' = <<NoKey>>
  /\ ref' = RefGet(ref, key)

\* peek, lines 177-183 and 186-192: the list after the call
PeekCacheMut(key) == GetCache(key)
PeekCache(key) == cache

\* peek: the optional it returns, [found, ret]
PeekReturn(key) ==
  LET it == DictFind(dict, mapMem, key)
  IN IF it # NULL
       THEN [found |-> TRUE, ret |-> listMem[mapMem[it].second].second]
       ELSE [found |-> FALSE, ret |-> NoVal]

Peek(key) ==
  /\ cache' = PeekCache(key)
  /\ UNCHANGED <<limit, listMem, dict, mapMem, listAlloc, mapAlloc,
                 bucketCount>>
  /\ last' = [NoCall EXCEPT !.op = "peek", !.key = key,
                            !.found = PeekReturn(key).found,
                            !.ret = PeekReturn(key).ret]
  /\ UNCHANGED <<accessOrder, ref>>
  /\ run' = <<NoKey>>

\* ----------------------------------------------------------------- forEach
\* forEach, lines 200-205 and 213-218: the calls fn(*it.first, it.second)
ForEachCallsMut ==
  [i \in 1 .. Len(cache) |->
     <<KeyOf(listMem, mapMem, cache[Len(cache) + 1 - i]),
       listMem[cache[Len(cache) + 1 - i]].second>>]
ForEachCalls ==
  [i \in 1 .. Len(cache) |->
     <<mapMem[listMem[cache[i]].first].first, listMem[cache[i]].second>>]

ForEach ==
  /\ UNCHANGED cacheVars
  /\ last' = [NoCall EXCEPT !.op = "forEach", !.calls = ForEachCalls]
  /\ UNCHANGED <<accessOrder, ref>>
  /\ run' = <<NoKey>>

\* -------------------------------------------------------------------- spec
DoInsert == \E key \in Keys, value \in Values, update \in BOOLEAN :
              Insert(key, value, update) /\ UNCHANGED aux
DoGetOrInsert == \E key \in Keys, value \in Values :
                   GetOrInsert(key, value) /\ UNCHANGED aux
DoGet == \E key \in Keys : Get(key) /\ UNCHANGED aux
DoPeek == \E key \in Keys : Peek(key) /\ UNCHANGED aux
DoForEach == ForEach /\ UNCHANGED aux

Next == DoInsert \/ DoGetOrInsert \/ DoGet \/ DoPeek \/ DoForEach

Spec == Init /\ [][Next]_vars

\* ---------------------------------------------------------------- scenario
\* LRUTest.cpp, lines 46-96: the calls of the scenario in main, doubles in
\* ten-thousandths
ScenarioLimit == 3

Scenario ==
  << [op |-> "insert", key |-> 3, value |-> 45000, update |-> FALSE],
     [op |-> "insert", key |-> 4, value |-> 43000, update |-> FALSE],
     [op |-> "insert", key |-> 6, value |-> 47000, update |-> FALSE],
     [op |-> "get", key |-> 4],
     [op |-> "printAll"],
     [op |-> "insert", key |-> 7, value |-> 333333, update |-> FALSE],
     [op |-> "get", key |-> 3],
     [op |-> "get", key |-> 6],
     [op |-> "printAll"],
     [op |-> "insert", key |-> 7, value |-> 60000, update |-> FALSE],
     [op |-> "get", key |-> 4],
     [op |-> "get", key |-> 7],
     [op |-> "printAll"],
     [op |-> "insert", key |-> 7, value |-> 60000, update |-> TRUE],
     [op |-> "get", key |-> 7],
     [op |-> "printAll"] >>

ScenarioKeys == {Scenario[i].key : i \in {j \in 1 .. Len(Scenario) :
                                             Scenario[j].op # "printAll"}}

\* aux.pc: the next call of the scenario; aux.out: what the calls so far
\* returned
InitScenario ==
  /\ \/ Construct(ScenarioLimit, Min(ScenarioLimit, AllocBlockSize), 1)
     \/ \E initCap \in 1 .. ScenarioLimit :
          Construct(ScenarioLimit, initCap, ReserveBuckets(initCap))
  /\ aux = [kind |-> "scenario", pc |-> 1, out |-> <<>>]

ScenarioStep ==
  /\ aux.pc <= Len(Scenario)
  /\ LET s == Scenario[aux.pc]
     IN \/ s.op = "insert" /\ Insert(s.key, s.value, s.update)
        \/ s.op = "get" /\ Get(s.key)
        \/ s.op = "printAll" /\ ForEach
  /\ aux' = [aux EXCEPT !.pc = @ + 1,
                        !.out = Append(@, [found |-> last'.found,
                                           ret |-> last'.ret,
                                           inserted |-> last'.inserted,
                                           calls |-> last'.calls])]

\* a reader between two calls of the scenario
ScenarioObserve ==
  /\ \/ \E key \in ScenarioKeys : Peek(key)
     \/ ForEach
  /\ UNCHANGED aux

NextScenario == ScenarioStep \/ ScenarioObserve

SpecScenario == InitScenario /\ [][NextScenario]_vars

\* --------------------------------------------------------------------- fib
\* LRUTest.cpp, lines 23-35: fibIt
MaxN == 5

RECURSIVE FibItLoop(_, _, _, _)
FibItLoop(i, n, a, b) == IF i < n THEN FibItLoop(i + 1, n, b, a + b) ELSE b

fibIt(n) == IF n < 2 THEN n ELSE FibItLoop(2, n, 1, 1)

\* LRUTest.cpp, lines 10-21: fib(n, cache). aux.stack holds the calls of fib
\* that have not returned, the innermost last; aux.ret is what the latest
\* return gave. A frame is at "start", or waits for the operand of the sum
\* it evaluates first ("second") or second ("sum"); the order of the two
\* operands is the compiler's choice.
Frame(n) == [n |-> n, pc |-> "start", first |-> 0, a |-> 0]
Top == aux.stack[Len(aux.stack)]
Pop == SubSeq(aux.stack, 1, Len(aux.stack) - 1)
Return(ret) == [aux EXCEPT !.stack = Pop, !.ret = ret]

InitFib ==
  /\ Ctor1 \/ Ctor2
  /\ aux = [kind |-> "fib", N |-> 0, stack |-> <<>>, ret |-> 0]

\* main, line 43: fib(N, cache)
FibCall ==
  /\ aux.stack = <<>>
  /\ \E n \in 0 .. MaxN : aux' = [aux EXCEPT !.N = n, !.stack = <<Frame(n)>>]
  /\ UNCHANGED <<cacheVars, last, accessOrder, run, ref>>

\* lines 12-13
FibBase ==
  /\ aux.stack # <<>>
  /\ Top.pc = "start"
  /\ Top.n < 2
  /\ aux' = Return(Top.n)
  /\ UNCHANGED <<cacheVars, last, accessOrder, run, ref>>

\* lines 15-16, and the call of the first operand in line 18
FibLookup ==
  /\ aux.stack # <<>>
  /\ Top.pc = "start"
  /\ Top.n >= 2
  /\ Get(Top.n)
  /\ IF GetReturn(Top.n).found
       THEN aux' = Return(GetReturn(Top.n).ret)
       ELSE \E first \in {1, 2} :
              aux' = [aux EXCEPT
                        !.stack = Append(Pop, [Top EXCEPT !.pc = "second",
                                                          !.first = first])
                                  \o <<Frame(Top.n - first)>>]

\* line 18: the first operand has returned, the call of the other one
FibSecond ==
  /\ aux.stack # <<>>
  /\ Top.pc = "second"
  /\ aux' = [aux EXCEPT
               !.stack = Append(Pop, [Top EXCEPT !.pc = "sum", !.a = aux.ret])
                         \o <<Frame(Top.n - (3 - Top.first))>>]
  /\ UNCHANGED <<cacheVars, last, accessOrder, run, ref>>

\* lines 18-20: the sum, cache.insert(n, ret), return ret
FibStore ==
  /\ aux.stack # <<>>
  /\ Top.pc = "sum"
  /\ Insert(Top.n, Top.a + aux.ret, FALSE)
  /\ aux' = Return(Top.a + aux.ret)

NextFib == FibCall \/ FibBase \/ FibLookup \/ FibSecond \/ FibStore

SpecFib == InitFib /\ [][NextFib]_vars

\* the program keeps running
SpecFibFair == SpecFib /\ WF_vars(NextFib)

\* ---------------------------------------------------- pool_allocator alone
\* Two allocator objects "a" and "b" of one instantiation
\* pool_allocator<T, UseFreeList, BlockSize> and the blocks they create.
\* aux.heap: every block ever created, [size, handed, released]: its number
\* of slots, the slots taken from it, the times it was passed to delete[];
\* a block is named by its place in aux.heap, 0 names no block (nullptr).
\* aux.al[x]: mpool.pool as the chain of blocks (newest first), mpool.freeList
\* as the chain of slots, index, currBlockSize; alive: constructed and not
\* destroyed; born: constructed; reserved, acquired, freed: history (the
\* constructor argument, the blocks created by it, the slots given back and
\* not handed out again, latest first).
\* aux.held: the slots handed out and not given back.
MaxAllocs == 3

Objects == {"a", "b"}
Reserveds == 0 .. AllocBlockSize + 1

\* pool_allocator(unsigned reserved), lines 62-66
PoolCtor(reserved) ==
  [pool |-> <<>>, freeList |-> <<>>, index |-> reserved,
   currBlockSize |-> reserved, alive |-> TRUE, born |-> TRUE,
   reserved |-> reserved, acquired |-> 0, freed |-> <<>>]

Unborn == [PoolCtor(0) EXCEPT !.alive = FALSE, !.born = FALSE]

\* Block::create, lines 31-38, and data[0] handed out (line 145)
BlockCreate(heap, n) == Append(heap, [size |-> n, handed |-> 1, released |-> 0])

\* allocate(1), lines 121-148: the allocator and the heap after the call, the
\* slot returned and the way it was found. With no block and
\* index # currBlockSize the slot is computed from nullptr.
PoolAllocate(al, heap, useFreeList) ==
  IF useFreeList /\ al.freeList # <<>>
    THEN [al |-> [al EXCEPT !.freeList = Tail(@),
                            !.freed = SelectSeq(@, LAMBDA f :
                                                  f # Head(al.freeList))],
          heap |-> heap, slot |-> Head(al.freeList), how |-> "free"]
  ELSE IF al.index = al.currBlockSize
    THEN LET n == IF al.pool # <<>> THEN AllocBlockSize ELSE al.currBlockSize
         IN [al |-> [al EXCEPT !.pool = <<Len(heap) + 1>> \o @,
                               !.index = 1,
                               !.currBlockSize = n,
                               !.acquired = @ + 1],
             heap |-> BlockCreate(heap, n),
             slot |-> <<Len(heap) + 1, 0>>, how |-> "block"]
  ELSE [al |-> [al EXCEPT !.index = @ + 1],
        heap |-> IF al.pool # <<>>
                   THEN [heap EXCEPT ![Head(al.pool)].handed = @ + 1]
                   ELSE heap,
        slot |-> <<IF al.pool # <<>> THEN Head(al.pool) ELSE 0, al.index>>,
        how |-> "next"]

\* deallocate(ptr, 1), lines 156-163
PoolDeallocateMut(al, slot, useFreeList) ==
  [al EXCEPT !.freeList = IF useFreeList THEN Append(@, slot) ELSE @,
             !.freed = <<slot>> \o @]
PoolDeallocate(al, slot, useFreeList) ==
  [al EXCEPT !.freeList = IF useFreeList THEN <<slot>> \o @ ELSE @,
             !.freed = <<slot>> \o @]

\* ~pool_allocator, lines 87-99: every block of the chain goes to delete[]
PoolRelease(heap, pool) ==
  [i \in 1 .. Len(heap) |->
     IF \E j \in 1 .. Len(pool) : pool[j] = i
       THEN [heap[i] EXCEPT !.released = @ + 1]
       ELSE heap[i]]
PoolDestroyed(al) ==
  [al EXCEPT !.pool = <<>>, !.freeList = <<>>, !.alive = FALSE, !.freed = <<>>]

\* pool_allocator(pool_allocator &&other), lines 74-78: the new object, and
\* other after other.mpool = nullptr
PoolMoved(other) == [other EXCEPT !.alive = TRUE, !.born = TRUE]
PoolMoveSourceMut(other) == other
PoolMoveSource(other) ==
  [other EXCEPT !.pool = <<>>, !.freeList = <<>>, !.freed = <<>>]

InitAlloc ==
  /\ Construct(1, 1, 1)
  /\ \E useFreeList \in BOOLEAN, reserved \in Reserveds :
       aux = [kind |-> "alloc", useFreeList |-> useFreeList,
              al |-> [a |-> PoolCtor(reserved), b |-> Unborn],
              heap |-> <<>>, held |-> {}, calls |-> 0,
              last |-> [op |-> "ctor", who |-> "a", slot |-> NULL,
                        how |-> "none", dup |-> FALSE]]

AllocConstruct ==
  /\ ~aux.al.b.born
  /\ \E reserved \in Reserveds :
       aux' = [aux EXCEPT !.al.b = PoolCtor(reserved),
                          !.last = [op |-> "ctor", who |-> "b", slot |-> NULL,
                                    how |-> "none", dup |-> FALSE]]
  /\ UNCHANGED <<cacheVars, last, accessOrder, run, ref>>

AllocMoveConstruct ==
  /\ ~aux.al.b.born
  /\ aux.al.a.alive
  /\ aux' = [aux EXCEPT !.al.b = PoolMoved(aux.al.a),
                        !.al.a = PoolMoveSource(aux.al.a),
                        !.last = [op |-> "move", who |-> "b", slot |-> NULL,
                                  how |-> "none", dup |-> FALSE]]
  /\ UNCHANGED <<cacheVars, last, accessOrder, run, ref>>

\* operator=(pool_allocator &&other), lines 81-85, on object x with other y
AllocMoveAssign ==
  \E x, y \in Objects :
    /\ x # y
    /\ aux.al[x].alive
    /\ aux.al[y].alive
    /\ aux' = [aux EXCEPT !.heap = PoolRelease(aux.heap, aux.al[x].pool),
                          !.al[x] = PoolMoved(aux.al[y]),
                          !.al[y] = PoolMoveSource(aux.al[y]),
                          !.last = [op |-> "assign", who |-> x, slot |-> NULL,
                                    how |-> "none", dup |-> FALSE]]
    /\ UNCHANGED <<cacheVars, last, accessOrder, run, ref>>

AllocDestroy ==
  \E x \in Objects :
    /\ aux.al[x].alive
    /\ aux' = [aux EXCEPT !.heap = PoolRelease(aux.heap, aux.al[x].pool),
                          !.al[x] = PoolDestroyed(aux.al[x]),
                          !.last = [op |-> "destroy", who |-> x, slot |-> NULL,
                                    how |-> "none", dup |-> FALSE]]
    /\ UNCHANGED <<cacheVars, last, accessOrder, run, ref>>

AllocAllocate ==
  \E x \in Objects :
    /\ aux.al[x].alive
    /\ aux.calls < MaxAllocs
    /\ LET r == PoolAllocate(aux.al[x], aux.heap, aux.useFreeList)
       IN aux' = [aux EXCEPT !.al[x] = r.al,
                             !.heap = r.heap,
                             !.held = @ \cup {r.slot},
                             !.calls = @ + 1,
                             !.last = [op |-> "allocate", who |-> x,
                                       slot |-> r.slot, how |-> r.how,
                                       dup |-> r.slot \in aux.held]]
    /\ UNCHANGED <<cacheVars, last, accessOrder, run, ref>>

\* a slot is given back to the allocator that owns its block
AllocDeallocate ==
  \E x \in Objects, slot \in aux.held :
    /\ aux.al[x].alive
    /\ \E j \in 1 .. Len(aux.al[x].pool) : aux.al[x].pool[j] = slot[1]
    /\ aux' = [aux EXCEPT !.al[x] = PoolDeallocate(aux.al[x], slot,
                                                   aux.useFreeList),
                          !.held = @ \ {slot},
                          !.last = [op |-> "deallocate", who |-> x,
                                    slot |-> slot, how |-> "none",
                                    dup |-> FALSE]]
    /\ UNCHANGED <<cacheVars, last, accessOrder, run, ref>>

NextAlloc ==
  \/ AllocConstruct
  \/ AllocMoveConstruct
  \/ AllocMoveAssign
  \/ AllocDestroy
  \/ AllocAllocate
  \/ AllocDeallocate

SpecAlloc == InitAlloc /\ [][NextAlloc]_vars

\* -------------------------------------------------------------------- move
\* A program that uses the cache a of the state and ends with
\* b = std::move(a) for a second cache b.
\* lru_cache declares a deleted copy constructor (lines 62-63) and nothing
\* else, so it has no move constructor and no move assignment; the
\* assignment is the implicit lru_cache &operator=(const lru_cache &), which
\* copies dict, cache and limit member by member and leaves a as it is.
\* aux.dst: b after the assignment. entries: the pairs of its list; keysIn:
\* the index whose records the key pointers of its list nodes point to (they
\* are copied as pointers); nodes: whether its list nodes are in blocks of
\* its own allocator or in blocks of a temporary copy of the allocator that
\* has been destroyed (the allocators compare equal without sharing blocks,
\* part_000 line 173, so the library may splice such nodes in).
InitMove ==
  /\ Ctor1 \/ Ctor2
  /\ aux = [kind |-> "move", assigned |-> FALSE,
            dst |-> [entries |-> <<>>, limit |-> limit, keysIn |-> "b",
                     nodes |-> "own"]]

MoveAssign ==
  /\ ~aux.assigned
  /\ \E nodes \in IF cache = <<>> THEN {"own"} ELSE {"own", "freed"} :
       aux' = [aux EXCEPT !.assigned = TRUE,
                          !.dst = [entries |-> Entries, limit |-> limit,
                                   keysIn |-> IF cache = <<>> THEN "b"
                                              ELSE "a",
                                   nodes |-> nodes]]
  /\ UNCHANGED <<cacheVars, last, accessOrder, run, ref>>

NextMove ==
  \/ ~aux.assigned /\ DoInsert
  \/ ~aux.assigned /\ DoGetOrInsert
  \/ ~aux.assigned /\ DoGet
  \/ ~aux.assigned /\ DoPeek
  \/ ~aux.assigned /\ DoForEach
  \/ MoveAssign

SpecMove == InitMove /\ [][NextMove]_vars

\* ================================================================ properties
Size == Cardinality(PresentKeys)
Range(seq) == {seq[i] : i \in 1 .. Len(seq)}
Pos(seq, x) == CHOOSE i \in 1 .. Len(seq) : seq[i] = x

\* the present keys, ordered by their latest hit or insert
RecencyByHistory == SelectSeq(accessOrder, LAMBDA k : k \in PresentKeys)

\* some key has been evicted
Evicted == \E k \in Range(accessOrder) : k \notin PresentKeys

InsertCall(l) == l.op \in {"insert", "getOrInsert"}

\* the step is an insert or getOrInsert of an absent key into a full cache
EvictingStep ==
  /\ InsertCall(last')
  /\ last'.key \notin PresentKeys
  /\ Size = limit

\* the values of all keys of ks stay what they are
ValuesKept(ks) == \A j \in ks : ValueOf(j)' = ValueOf(j)

\* ------------------------------------------------------------------------
\* C1: the number of present keys never exceeds limit, and once it has
\* reached limit it equals limit after every later call.
C1_Capacity ==
  /\ [](Size <= limit)
  /\ [][Size = limit => Size' = limit']_vars

C1_Witness ==
  /\ Size = limit
  /\ Evicted
  /\ last.op = "get"

\* ------------------------------------------------------------------------
\* C2: an insert of an absent key into a cache holding limit keys removes
\* exactly the key at the front of the recency list, which is the least
\* recently used key, and no other; after limit+1 inserts of distinct keys
\* and nothing else the first of them is absent and the others are present.
C2_EvictsFront ==
  EvictingStep =>
    /\ PresentKeys' = (PresentKeys \ {Order[1]}) \cup {last'.key}
    /\ Order[1] \in PresentKeys
    /\ Order[1] = RecencyByHistory[1]
    /\ Size' = Size

C2_Run ==
  (run # <<NoKey>> /\ Len(run) = limit + 1) =>
    /\ run[1] \notin PresentKeys
    /\ \A i \in 2 .. limit + 1 : run[i] \in PresentKeys

C2_LRUEviction == [](C2_Run) /\ [][C2_EvictsFront]_vars

C2_Witness ==
  /\ run # <<NoKey>>
  /\ Len(run) = limit + 1
  /\ limit >= 2

\* ------------------------------------------------------------------------
\* C3: after a get hit, or an insert or getOrInsert of a present key, the
\* key is at the back of the recency list; and when a key is evicted, every
\* other present key has been looked up or inserted after it.
C3_AtBack ==
  (\/ last.op = "get" /\ last.found
   \/ InsertCall(last) /\ ~last.inserted)
    => Back(Order) = last.key

C3_EvictedIsOldest ==
  \A k \in PresentKeys \ PresentKeys' :
    \A j \in PresentKeys \ {k} :
      Pos(accessOrder, k) < Pos(accessOrder, j)

C3_RecencyBump == [](C3_AtBack) /\ [][C3_EvictedIsOldest]_vars

C3_Witness ==
  /\ last.op = "get"
  /\ last.found
  /\ Evicted
  /\ limit >= 2

\* ------------------------------------------------------------------------
\* C4: peek(k) returns what get(k) would return in the same state and
\* leaves keys, values and recency order as they are, so the entry at the
\* front, which the next insert into a full cache evicts, is the same.
C4_PeekStep ==
  last'.op = "peek" =>
    /\ last'.found = GetReturn(last'.key).found
    /\ last'.ret = GetReturn(last'.key).ret
    /\ UNCHANGED cacheVars
    /\ Entries' = Entries

C4_PeekNonInterference == [][C4_PeekStep]_vars

C4_Witness ==
  /\ last.op = "peek"
  /\ last.found
  /\ Size = limit
  /\ Back(Order) # last.key

\* ------------------------------------------------------------------------
\* C5: for a present key k, insert(k, v2, false) keeps the stored value,
\* insert(k, v2, true) makes it v2; both move k to the back, report
\* inserted = false and return a pointer to the stored value of k.
C5_InsertPresentStep ==
  \A k \in PresentKeys :
    (last'.op = "insert" /\ last'.key = k) =>
      /\ ~last'.update => ValueOf(k)' = ValueOf(k)
      /\ last'.update => ValueOf(k)' = last'.value
      /\ Back(Order') = k
      /\ ~last'.inserted
      /\ last'.retptr = mapMem'[DictFind(dict', mapMem', k)].second
      /\ last'.ret = ValueOf(k)'

C5_UpdateFlag == [][C5_InsertPresentStep]_vars

C5_Witness ==
  /\ last.op = "insert"
  /\ ~last.inserted
  /\ ~last.update
  /\ last.value # last.ret
  /\ Len(cache) >= 2

\* ------------------------------------------------------------------------
\* C6: insert reports inserted = false exactly when the key was present,
\* and then removes no entry, also from a full cache: the present keys are
\* the same and the values of all other keys are unchanged.
C6_NotInsertedStep ==
  last'.op = "insert" =>
    /\ ~last'.inserted <=> last'.key \in PresentKeys
    /\ last'.key \in PresentKeys =>
         /\ PresentKeys' = PresentKeys
         /\ last'.removed = {}
         /\ ValuesKept(PresentKeys \ {last'.key})

C6_NoRemovalWithoutInsertion == [][C6_NotInsertedStep]_vars

C6_Witness ==
  /\ last.op = "insert"
  /\ ~last.inserted
  /\ last.update
  /\ Size = limit
  /\ limit >= 2

\* ------------------------------------------------------------------------
\* C7: forEach calls fn(key, value) once for every present entry, from the
\* least to the most recently used as the history of hits and inserts
\* orders them, each key with its stored value, and changes nothing.
C7_ForEachStep ==
  last'.op = "forEach" =>
    /\ Len(last'.calls) = Size
    /\ [i \in 1 .. Len(last'.calls) |-> last'.calls[i][1]] = RecencyByHistory
    /\ \A i \in 1 .. Len(last'.calls) :
         /\ last'.calls[i][1] \in PresentKeys
         /\ \E k \in PresentKeys :
              k = last'.calls[i][1] /\ last'.calls[i][2] = ValueOf(k)
    /\ UNCHANGED cacheVars
    /\ UNCHANGED accessOrder

C7_ForEachOrder == [][C7_ForEachStep]_vars

C7_Witness ==
  /\ last.op = "forEach"
  /\ Len(last.calls) = limit
  /\ limit >= 2
  /\ Evicted
  /\ last.calls[1][2] # last.calls[2][2]

\* ------------------------------------------------------------------------
\* C8: get(k) returns nothing exactly when k is not present, and then
\* changes nothing; on a hit it returns the value stored for k, removes no
\* entry and changes no value.
C8_GetStep ==
  \A k \in Keys :
    (last'.op = "get" /\ last'.key = k) =>
      /\ last'.found <=> k \in PresentKeys
      /\ k \notin PresentKeys =>
           /\ UNCHANGED cacheVars
           /\ last'.ret = NoVal
      /\ k \in PresentKeys =>
           /\ last'.ret = ValueOf(k)
           /\ PresentKeys' = PresentKeys
           /\ ValuesKept(PresentKeys)
           /\ Len(cache') = Len(cache)

C8_GetMissAndHit == [][C8_GetStep]_vars

C8_Witness ==
  /\ last.op = "get"
  /\ ~last.found
  /\ Size = limit
  /\ Evicted

\* ------------------------------------------------------------------------
\* C9: getOrInsert(k, v) returns the value already stored for k when k is
\* present and leaves it stored, returns v after storing it when k is
\* absent; afterwards k is present and most recently used, and the cache is
\* what insert(k, v, false) makes it.
C9_GetOrInsertStep ==
  \A k \in Keys :
    (last'.op = "getOrInsert" /\ last'.key = k) =>
      /\ k \in PresentKeys =>
           /\ last'.ret = ValueOf(k)
           /\ ValueOf(k)' = ValueOf(k)
      /\ k \notin PresentKeys =>
           /\ last'.ret = last'.value
           /\ ValueOf(k)' = last'.value
      /\ k \in PresentKeys'
      /\ Back(Order') = k
      /\ Back(accessOrder') = k
      /\ cache' = InsertResult(k, last'.value, FALSE).cache
      /\ listMem' = InsertResult(k, last'.value, FALSE).listMem
      /\ dict' = InsertResult(k, last'.value, FALSE).dict
      /\ mapMem' = InsertResult(k, last'.value, FALSE).mapMem

C9_GetOrInsert == [][C9_GetOrInsertStep]_vars

C9_Witness ==
  /\ last.op = "getOrInsert"
  /\ ~last.inserted
  /\ last.value # last.ret
  /\ Size = limit

\* ------------------------------------------------------------------------
\* C10 as stated: a present key becomes absent only by an insert of another,
\* absent key into a full cache, only when it is the front of the recency
\* list, and only when it is not the most recently used key.
C10_RemovalStep(mruExempt) ==
  \A k \in PresentKeys \ PresentKeys' :
    /\ InsertCall(last')
    /\ last'.key # k
    /\ last'.key \notin PresentKeys
    /\ Size = limit
    /\ k = Order[1]
    /\ k # Back(Order) \/ mruExempt

C10_Original == [][C10_RemovalStep(FALSE)]_vars

\* C10 amended: as above, but the evicted key is not the most recently
\* used key only when limit >= 2; with limit = 1 the single entry is front
\* and most recently used at once, and the next insert of another key
\* evicts it.
C10_OnlyFrontEvicted == [][C10_RemovalStep(limit = 1)]_vars

C10_Witness ==
  /\ InsertCall(last)
  /\ last.removed # {}
  /\ limit >= 2
  /\ Size = limit

\* ------------------------------------------------------------------------
\* C11: after every call index and recency list agree: they have the same
\* number of entries, every index record (k, h) refers to a node of the list
\* whose key pointer resolves to a key equal to k, and every list node is
\* referred to by exactly one index record; also after the insert that
\* rewrites the key of an extracted record in place.
C11_Consistent ==
  /\ DictSize(dict) = Len(cache)
  /\ \A i, j \in 1 .. Len(cache) : cache[i] = cache[j] => i = j
  /\ \A s \in dict :
       /\ mapMem[s].second \in Range(cache)
       /\ listMem[mapMem[s].second].first \in DOMAIN mapMem
       /\ mapMem[listMem[mapMem[s].second].first].first = mapMem[s].first
  /\ \A h \in Range(cache) :
       Cardinality({s \in dict : mapMem[s].second = h}) = 1

C11_Witness ==
  /\ InsertCall(last)
  /\ last.removed # {}
  /\ limit >= 2
  /\ Len(cache) = limit

\* ------------------------------------------------------------------------
\* C18: an insert or getOrInsert of an absent key into a full cache leaves
\* both allocators as they are (no slot is taken) and takes no bucket array;
\* the slots taken from the list allocator and from the index allocator never
\* exceed limit; and no call on a full cache takes a bucket array.
RECURSIVE SumSeq(_)
SumSeq(seq) == IF seq = <<>> THEN 0 ELSE Head(seq) + SumSeq(Tail(seq))

\* the slots allocate(1) has handed out: the older blocks are used up, the
\* newest up to index
SlotsObtained(a) ==
  IF a.pool = <<>> THEN 0 ELSE SumSeq(Tail(a.pool)) + a.index

C18_EvictStep ==
  /\ EvictingStep =>
       /\ listAlloc' = listAlloc
       /\ mapAlloc' = mapAlloc
       /\ last'.bulk = 0
       /\ last'.inserted
       /\ last'.retptr = Head(cache)
       /\ DictFind(dict', mapMem', last'.key) =
            DictFind(dict, mapMem, Order[1])
  /\ Size = limit => last'.bulk = 0

C18_SlotsBounded ==
  /\ SlotsObtained(listAlloc) <= limit
  /\ SlotsObtained(mapAlloc) <= limit

C18_NodeReuse == [](C18_SlotsBounded) /\ [][C18_EvictStep]_vars

C18_Witness ==
  /\ InsertCall(last)
  /\ last.removed # {}
  /\ limit >= 2
  /\ SlotsObtained(listAlloc) = limit
  /\ SlotsObtained(mapAlloc) = limit
  /\ bucketCount > 1

\* ------------------------------------------------------------------------
\* C20: the cache and the reference cache hold the same pairs in the same
\* order; every insert, getOrInsert, get and peek returns what the reference
\* cache returns (found or not, the value, the inserted flag); and the value
\* of a key that stays present changes only in an insert of that key with
\* update = true.
C20_Abstraction ==
  /\ Entries = ref
  /\ Len(ref) <= limit

C20_ResultStep ==
  /\ InsertCall(last') =>
       /\ last'.inserted = (RefIndex(ref, last'.key) = 0)
       /\ last'.ret = RefLookup(ref', last'.key).ret
       /\ last'.found
  /\ last'.op \in {"get", "peek"} =>
       /\ last'.found = RefLookup(ref, last'.key).found
       /\ last'.ret = RefLookup(ref, last'.key).ret

C20_ValueStep ==
  \A k \in PresentKeys :
    (k \in PresentKeys' /\ ValueOf(k)' # ValueOf(k)) =>
      /\ last'.op = "insert"
      /\ last'.key = k
      /\ last'.update

C20_RefinesReference ==
  [](C20_Abstraction) /\ [][C20_ResultStep /\ C20_ValueStep]_vars

C20_Witness ==
  /\ last.op = "get"
  /\ last.found
  /\ Evicted
  /\ Len(ref) = limit
  /\ limit >= 2
  /\ \E i \in 1 .. Len(ref) : ref[i][2] # ref[1][2]

\* ------------------------------------------------------------------------
\* C12: in the scenario of LRUTest.cpp on a cache of limit 3: get(4) finds
\* 4.3 and the order is 3, 6, 4; insert(7, 33.3333) removes 3 and the order is
\* 6, 4, 7; get(3) finds nothing; get(6) finds 4.7 and the order is 4, 7, 6;
\* insert(7, 6) without update keeps 33.3333 for 7 and the order is 4, 6, 7;
\* insert(7, 6, true) sets the value of 7 to 6.
C12_Scenario ==
  aux.kind = "scenario" =>
    /\ aux.pc > 4 => aux.out[4].found /\ aux.out[4].ret = 43000
    /\ aux.pc \in {5, 6} => Order = <<3, 6, 4>>
    /\ aux.pc > 5 => aux.out[5].calls = <<<<3, 45000>>, <<6, 47000>>,
                                         <<4, 43000>>>>
    /\ aux.pc = 7 => /\ Order = <<6, 4, 7>>
                     /\ PresentKeys = {4, 6, 7}
                     /\ aux.out[6].inserted
    /\ aux.pc > 7 => ~aux.out[7].found
    /\ aux.pc > 8 => aux.out[8].found /\ aux.out[8].ret = 47000
    /\ aux.pc \in {9, 10} => Order = <<4, 7, 6>>
    /\ aux.pc = 11 => /\ Order = <<4, 6, 7>>
                      /\ ValueOf(7) = 333333
                      /\ aux.out[10].ret = 333333
                      /\ ~aux.out[10].inserted
    /\ aux.pc > 12 => aux.out[12].found /\ aux.out[12].ret = 333333
    /\ aux.pc > 14 => /\ ValueOf(7) = 60000
                      /\ aux.out[14].ret = 60000
                      /\ ~aux.out[14].inserted
    /\ aux.pc > 15 => aux.out[15].found /\ aux.out[15].ret = 60000
    /\ aux.pc > 16 => aux.out[16].calls = <<<<6, 47000>>, <<4, 43000>>,
                                           <<7, 60000>>>>

C12_Witness ==
  /\ aux.kind = "scenario"
  /\ aux.pc = Len(Scenario) + 1
  /\ last.op = "forEach"

\* ------------------------------------------------------------------------
\* C13: every call of fib(n, cache) returns, and it returns fibIt(n),
\* whatever limit the cache has and whatever was evicted before; the value
\* the cache holds for a key m is always fibIt(m).
C13_ReturnStep ==
  (aux.stack # <<>> /\ Len(aux'.stack) < Len(aux.stack)) =>
    aux'.ret = fibIt(Top.n)

C13_HitsAreInserted == \A m \in PresentKeys : ValueOf(m) = fibIt(m)

C13_Terminates == (aux.stack # <<>>) ~> (aux.stack = <<>>)

C13_FibTransparent ==
  /\ [](C13_HitsAreInserted)
  /\ [][C13_ReturnStep]_vars
  /\ C13_Terminates

C13_Witness ==
  /\ aux.kind = "fib"
  /\ aux.stack = <<>>
  /\ aux.N = MaxN
  /\ aux.ret = fibIt(MaxN)
  /\ last.op = "get"
  /\ last.found
  /\ Evicted

\* ------------------------------------------------------------------------
\* steps of the allocator specification
AllocStep(x) == aux'.calls = aux.calls + 1 /\ aux'.last.who = x
DeallocStep(x) ==
  /\ aux'.last.op = "deallocate"
  /\ aux'.held # aux.held
  /\ aux'.last.who = x
AcquireStep(x) == Len(aux'.heap) = Len(aux.heap) + 1 /\ aux'.last.who = x

\* allocate(1) on x takes the slot given back latest, else the slot at the
\* cursor of the current block, else slot 0 of a new block
PriorityStep(x) ==
  LET al == aux.al[x]
  IN IF al.freed # <<>>
       THEN /\ aux'.last.how = "free"
            /\ aux'.last.slot = Head(al.freed)
            /\ Len(aux'.heap) = Len(aux.heap)
     ELSE IF al.index # al.currBlockSize
       THEN /\ aux'.last.how = "next"
            /\ aux'.last.slot[2] = al.index
            /\ al.pool # <<>> => aux'.last.slot[1] = Head(al.pool)
            /\ Len(aux'.heap) = Len(aux.heap)
     ELSE /\ aux'.last.how = "block"
          /\ aux'.last.slot = <<Len(aux.heap) + 1, 0>>
          /\ AcquireStep(x)

\* deallocate(ptr, 1) on x puts the slot at the head of the free list
PushStep(x) ==
  aux'.al[x].freeList = <<aux'.last.slot>> \o aux.al[x].freeList

\* C15 as stated: for every instantiation, also the one without free list
\* that the cache uses, deallocate(ptr, 1) puts the slot on the free list and
\* allocate(1) takes the latest slot given back before any fresh slot.
C15_Original ==
  [][\A x \in Objects :
       /\ AllocStep(x) => PriorityStep(x)
       /\ DeallocStep(x) => PushStep(x)]_vars

\* C15: with UseFreeList = true, deallocate(ptr, 1) puts the slot on the free
\* list and allocate(1) takes the latest slot given back, else the slot at
\* the cursor of the current block, else slot 0 of a new block. With
\* UseFreeList = false, as in the cache, deallocate(ptr, 1) leaves the
\* allocator as it is and allocate(1) never returns a slot given back.
C15_NoFreeListStep(x) ==
  LET al == aux.al[x]
  IN /\ DeallocStep(x) =>
          /\ aux'.al[x].freeList = <<>>
          /\ aux'.al[x].pool = al.pool
          /\ aux'.al[x].index = al.index
          /\ aux'.al[x].currBlockSize = al.currBlockSize
     /\ AllocStep(x) =>
          /\ aux'.last.how # "free"
          /\ \A i \in 1 .. Len(al.freed) : al.freed[i] # aux'.last.slot
          /\ aux'.al[x].freed = al.freed

C15_FreeListPriority ==
  [][\A x \in Objects :
       IF aux.useFreeList
         THEN /\ AllocStep(x) => PriorityStep(x)
              /\ DeallocStep(x) => PushStep(x)
         ELSE C15_NoFreeListStep(x)]_vars

C15_Witness ==
  /\ aux.kind = "alloc"
  /\ aux.useFreeList
  /\ aux.last.op = "allocate"
  /\ aux.last.how = "free"
  /\ aux.al[aux.last.who].freeList # <<>>
  /\ aux.al[aux.last.who].index < aux.al[aux.last.who].currBlockSize

\* ------------------------------------------------------------------------
\* C16: a block is created only when the free list is empty and every slot
\* of the current block has been taken; the first block of an allocator has
\* as many slots as the constructor argument says, every later one
\* BlockSize; and no block hands out more slots than it has.
C16_HandedWithinSize ==
  \A i \in 1 .. Len(aux.heap) : aux.heap[i].handed <= aux.heap[i].size

C16_AcquireStep ==
  \A x \in Objects :
    AcquireStep(x) =>
      LET al == aux.al[x]
      IN /\ al.freeList = <<>>
         /\ al.pool # <<>> =>
              aux.heap[Head(al.pool)].handed = aux.heap[Head(al.pool)].size
         /\ aux'.heap[Len(aux'.heap)].size =
              IF al.acquired = 0 THEN al.reserved ELSE AllocBlockSize

C16_BlockAcquisition == [](C16_HandedWithinSize) /\ [][C16_AcquireStep]_vars

\* ------------------------------------------------------------------------
\* C17: allocate and deallocate only add blocks to the chain of an allocator
\* and release none; every block is in the chain of exactly one living
\* allocator or has been released exactly once, by the destructor or by move
\* assignment; move construction hands the whole chain to the new object.
IsSuffix(t, seq) ==
  /\ Len(t) <= Len(seq)
  /\ \A i \in 1 .. Len(t) : t[i] = seq[Len(seq) - Len(t) + i]

Owners(i) ==
  {x \in Objects : \E j \in 1 .. Len(aux.al[x].pool) : aux.al[x].pool[j] = i}

C17_Owned ==
  /\ \A i \in 1 .. Len(aux.heap) :
       /\ aux.heap[i].released <= 1
       /\ aux.heap[i].released = 0 <=> Cardinality(Owners(i)) = 1
       /\ aux.heap[i].released = 1 <=> Owners(i) = {}
  /\ \A x \in Objects :
       /\ ~aux.al[x].alive => aux.al[x].pool = <<>>
       /\ \A j, k \in 1 .. Len(aux.al[x].pool) :
            aux.al[x].pool[j] = aux.al[x].pool[k] => j = k

C17_PoolStep ==
  /\ aux'.last.op \in {"allocate", "deallocate"} =>
       /\ \A x \in Objects : IsSuffix(aux.al[x].pool, aux'.al[x].pool)
       /\ \A i \in 1 .. Len(aux.heap) :
            aux'.heap[i].released = aux.heap[i].released
  /\ (aux'.last.op = "move" /\ aux' # aux) =>
       /\ aux'.al.b.pool = aux.al.a.pool
       /\ aux'.al.a.pool = <<>>
       /\ \A i \in 1 .. Len(aux.heap) :
            aux'.heap[i].released = aux.heap[i].released
  /\ (aux'.last.op \in {"destroy", "assign"} /\ aux' # aux) =>
       \A i \in 1 .. Len(aux.heap) :
         aux'.heap[i].released =
           aux.heap[i].released +
             (IF aux'.last.who \in Owners(i) THEN 1 ELSE 0)

C17_BlocksReleasedOnce == [](C17_Owned) /\ [][C17_PoolStep]_vars

C17_Witness ==
  /\ aux.kind = "alloc"
  /\ aux.al.b.born
  /\ ~aux.al.a.alive
  /\ ~aux.al.b.alive
  /\ aux.al.a.acquired >= 1
  /\ aux.al.b.acquired >= 2
  /\ aux.last.op = "destroy"
  /\ \A i \in 1 .. Len(aux.heap) : aux.heap[i].released = 1

\* ------------------------------------------------------------------------
\* C19: for every constructor argument, 0 included, a slot returned by
\* allocate(1) is in a block of the allocator's chain, at an index below the
\* number of slots of that block, and is not held by anyone at that time.
C19_SlotsInsideBlocks ==
  aux.last.op = "allocate" =>
    /\ \E j \in 1 .. Len(aux.al[aux.last.who].pool) :
         aux.al[aux.last.who].pool[j] = aux.last.slot[1]
    /\ aux.last.slot[2] < aux.heap[aux.last.slot[1]].size
    /\ ~aux.last.dup

\* ------------------------------------------------------------------------
\* C14: b = std::move(a) leaves b with the pairs of a in the same order, in
\* list nodes of its own whose key pointers point into the index of b, and
\* leaves a without any entry.
C14_MoveStep ==
  (~aux.assigned /\ aux'.assigned) =>
    /\ aux'.dst.entries = Entries
    /\ aux'.dst.limit = limit
    /\ aux'.dst.nodes = "own"
    /\ aux'.dst.keysIn = "b"
    /\ cache' = <<>>
    /\ dict' = {}

C14_MoveTransfers == [][C14_MoveStep]_vars
====
